---------------------------- MODULE Spec2Model ----------------------------
(***************************************************************************)
(* Model of dags/DAG.py: the Airflow DAG fetch_clean_elastic with its      *)
(* three tasks connect >> clean_data >> post_to_elasticsearch.             *)
(*                                                                         *)
(* Representation.                                                         *)
(*  - A column name is a TLA+ string; characters are read with SubSeq.      *)
(*  - A cell is a record [k, n, s]: k = "nan" (missing), k = "num" with the *)
(*    fixed-point number n (the real value times Scale), or k = "str" with  *)
(*    the text s.                                                           *)
(*  - A file (CSV) is a sequence of zero or one untyped frames              *)
(*    [cols, rows]; read_csv infers the column dtypes.                      *)
(*  - A data frame is [cols, dtypes, rows], rows and dtypes aligned with    *)
(*    cols.                                                                 *)
(***************************************************************************)
EXTENDS Integers, Sequences, FiniteSets, TLC

VARIABLES
    table,              \* the table table_sdg of the postgres database
    castsObject,        \* the installed pandas casts object columns in median()
    rawFile,            \* /opt/airflow/data_raw.csv
    cleanFile,          \* /opt/airflow/data_clean.csv
    esIndex,            \* the documents of the index sdg_data, in insertion order
    run,                \* number of the current DAG run
    state,              \* task instance states of the current run
    tries,              \* task instance try numbers of the current run
    locals,             \* local variables of the last clean_data call of the run
    loads,              \* history: successful post_to_elasticsearch calls and their row counts
    strays,             \* history: documents indexed by bulk calls that then failed
    col,                \* column-name study: the name handed to the normalisation
    normalised_columns  \* column-name study: results of successive normalisations

vars == <<table, castsObject, rawFile, cleanFile, esIndex, run, state, tries,
          locals, loads, strays, col, normalised_columns>>

pipelineVars == <<table, castsObject, rawFile, cleanFile, esIndex, run, state,
                  tries, locals, loads, strays>>

normVars == <<col, normalised_columns>>

-----------------------------------------------------------------------------
(* Bounds of the model *)

MaxRows == 3

MaxRuns == 2

MaxNameLen == 4

-----------------------------------------------------------------------------
(* Strings. The rewriting steps of the normalisation work on the sequence  *)
(* of characters of a name.                                                 *)

Chr(s, i) == SubSeq(s, i, i)

HasChar(s, c) == \E i \in 1..Len(s) : Chr(s, i) = c

\* the characters of s, as a set and in order
Chars(s) == {Chr(s, i) : i \in 1..Len(s)}

Explode(s) == [i \in 1..Len(s) |-> Chr(s, i)]

RECURSIVE Join(_)
Join(q) == IF q = <<>> THEN "" ELSE Head(q) \o Join(Tail(q))

UpperCase == "ABCDEFGHIJKLMNOPQRSTUVWXYZ"

LowerCase == "abcdefghijklmnopqrstuvwxyz"

Digits == "0123456789"

UpperLetters == Chars(UpperCase)

LowerLetters == Chars(LowerCase)

DigitChars == Chars(Digits)

ToLower == [c \in UpperLetters |-> Chr(LowerCase, CHOOSE i \in 1..26 : Chr(UpperCase, i) = c)]

\* col.lower(), ASCII
Lower(q) == [i \in 1..Len(q) |-> IF q[i] \in UpperLetters THEN ToLower[q[i]] ELSE q[i]]

\* position of the first ')' at or after i, 0 when there is none
RECURSIVE FirstClose(_, _)
FirstClose(q, i) ==
    IF i > Len(q) THEN 0
    ELSE IF q[i] = ")" THEN i ELSE FirstClose(q, i + 1)

RECURSIVE RemoveParensFrom(_, _)
RemoveParensFrom(q, i) ==
    IF i > Len(q) THEN <<>>
    ELSE IF q[i] = "(" /\ FirstClose(q, i + 1) > 0
         THEN RemoveParensFrom(q, FirstClose(q, i + 1) + 1)
         ELSE <<q[i]>> \o RemoveParensFrom(q, i + 1)

\* re.sub(r'\([^)]*\)', '', col): leftmost non-overlapping matches, each from a
\* '(' to the first ')' after it
RemoveParens(q) == RemoveParensFrom(q, 1)

\* the character class [a-z0-9_]
IsWordChar(c) == c \in LowerLetters \/ c \in DigitChars \/ c = "_"

\* the class written as [^a-z0-9_%]
MutReplaceNonWord(q) ==
    [i \in 1..Len(q) |-> IF IsWordChar(q[i]) \/ q[i] = "%" THEN q[i] ELSE " "]

\* re.sub(r'[^a-z0-9_]', ' ', col)
ReplaceNonWord(q) == [i \in 1..Len(q) |-> IF IsWordChar(q[i]) THEN q[i] ELSE " "]

\* the character class [\s-]
IsSeparator(c) == c \in {" ", "\t", "\n", "\r", "\f", "-"}

RECURSIVE CollapseFrom(_, _)
CollapseFrom(q, i) ==
    IF i > Len(q) THEN <<>>
    ELSE IF IsSeparator(q[i])
         THEN (IF i > 1 /\ IsSeparator(q[i - 1]) THEN <<>> ELSE <<"_">>)
              \o CollapseFrom(q, i + 1)
         ELSE <<q[i]>> \o CollapseFrom(q, i + 1)

\* re.sub(r'[\s-]+', '_', col): each run of separators becomes one underscore
CollapseSeparators(q) == CollapseFrom(q, 1)

\* col.strip('_')
StripUnderscores(q) ==
    LET inner == {i \in 1..Len(q) : q[i] # "_"} IN
    IF inner = {} THEN <<>>
    ELSE SubSeq(q, CHOOSE i \in inner : \A j \in inner : i <= j,
                   CHOOSE i \in inner : \A j \in inner : j <= i)

\* the body of the loop over data.columns
NormaliseColumn(s) ==
    Join(StripUnderscores(CollapseSeparators(ReplaceNonWord(RemoveParens(Lower(Explode(s)))))))

-----------------------------------------------------------------------------
(* Numbers: floats are fixed-point integers, the real value times Scale.   *)
(* Scale is a multiple of 10 and of every count up to MaxRows, so that one  *)
(* decimal digit, the mean of up to MaxRows values and the mean of two      *)
(* parsed values are exact.                                                 *)

RECURSIVE GCD(_, _)
GCD(a, b) == IF b = 0 THEN a ELSE GCD(b, a % b)

RECURSIVE LCMUpTo(_)
LCMUpTo(n) == IF n <= 1 THEN 1 ELSE LET l == LCMUpTo(n - 1) IN (l * n) \div GCD(l, n)

Scale == 10 * LCMUpTo(MaxRows)

F(x) == x * Scale

RECURSIVE Pow10(_)
Pow10(k) == IF k = 0 THEN 1 ELSE 10 * Pow10(k - 1)

RECURSIVE SumSeq(_)
SumSeq(q) == IF q = <<>> THEN 0 ELSE Head(q) + SumSeq(Tail(q))

-----------------------------------------------------------------------------
(* Cells *)

NaN == [k |-> "nan", n |-> 0, s |-> ""]

Num(n) == [k |-> "num", n |-> n, s |-> ""]

Str(s) == [k |-> "str", n |-> 0, s |-> s]

IsNa(c) == c.k = "nan"

DigitValues == [c \in DigitChars |-> (CHOOSE i \in 1..10 : Chr(Digits, i) = c) - 1]

DigitVal(c) == DigitValues[c]

RECURSIVE DigitsValue(_)
DigitsValue(s) ==
    IF Len(s) = 0 THEN 0
    ELSE 10 * DigitsValue(SubSeq(s, 1, Len(s) - 1)) + DigitVal(Chr(s, Len(s)))

Unsigned(s) == IF Len(s) > 0 /\ Chr(s, 1) \in {"-", "+"} THEN SubSeq(s, 2, Len(s)) ELSE s

DotAt(s) == IF HasChar(s, ".") THEN CHOOSE i \in 1..Len(s) : Chr(s, i) = "." ELSE 0

\* the decimal literals float() accepts over the characters 0-9 . + - :
\* an optional sign, digits with at most one point, at least one digit
IsFloatText(s) ==
    LET u == Unsigned(s) IN
    /\ \A i \in 1..Len(u) : Chr(u, i) \in DigitChars \/ Chr(u, i) = "."
    /\ Cardinality({i \in 1..Len(u) : Chr(u, i) = "."}) <= 1
    /\ \E i \in 1..Len(u) : Chr(u, i) \in DigitChars

\* float(s), in fixed point
ParseFloat(s) ==
    LET u == Unsigned(s)
        d == DotAt(u)
        whole == IF d = 0 THEN u ELSE SubSeq(u, 1, d - 1)
        frac == IF d = 0 THEN "" ELSE SubSeq(u, d + 1, Len(u))
        v == DigitsValue(whole) * Scale + (DigitsValue(frac) * Scale) \div Pow10(Len(frac))
    IN IF Len(s) > 0 /\ Chr(s, 1) = "-" THEN 0 - v ELSE v

-----------------------------------------------------------------------------
(* Data frames and CSV files *)

EmptyFrame == [cols |-> <<>>, dtypes |-> <<>>, rows |-> <<>>]

NRows(data) == Len(data.rows)

NCols(data) == Len(data.cols)

HasCol(data, name) == \E c \in 1..NCols(data) : data.cols[c] = name

ColIndex(data, name) == CHOOSE c \in 1..NCols(data) : data.cols[c] = name

Cell(data, i, name) == data.rows[i][ColIndex(data, name)]

ColumnSet(data) == {data.cols[c] : c \in 1..NCols(data)}

\* the subsequence of q at the positions of the set keep, from position i on
RECURSIVE SelectIdx(_, _, _)
SelectIdx(q, keep, i) ==
    IF i > Len(q) THEN <<>>
    ELSE (IF i \in keep THEN <<q[i]>> ELSE <<>>) \o SelectIdx(q, keep, i + 1)

\* the frame restricted to the columns at the positions of the set keep
SelectColumns(data, keep) ==
    [cols   |-> SelectIdx(data.cols, keep, 1),
     dtypes |-> SelectIdx(data.dtypes, keep, 1),
     rows   |-> [i \in 1..NRows(data) |-> SelectIdx(data.rows[i], keep, 1)]]

\* DataFrame.to_csv(path, index=False): the header and the fields, no dtypes
to_csv(data) == [cols |-> data.cols, rows |-> data.rows]

\* the dtype pandas infers for column c of a CSV: a number column when every
\* present field reads as a number; a file with no data rows has object columns
InferDtype(f, c) ==
    IF /\ Len(f.rows) > 0
       /\ \A i \in 1..Len(f.rows) :
            LET x == f.rows[i][c] IN
            x.k \in {"nan", "num"} \/ (x.k = "str" /\ (x.s = "" \/ IsFloatText(x.s)))
    THEN "number" ELSE "object"

\* one field as read_csv yields it: an empty field is missing, a field of a
\* number column is parsed
ReadField(x, dtype) ==
    IF x.k = "str" /\ x.s = "" THEN NaN
    ELSE IF x.k = "str" /\ dtype = "number" THEN Num(ParseFloat(x.s))
    ELSE x

\* pd.read_csv(data_path)
read_csv(f) ==
    LET dtypes == [c \in 1..Len(f.cols) |-> InferDtype(f, c)] IN
    [cols   |-> f.cols,
     dtypes |-> dtypes,
     rows   |-> [i \in 1..Len(f.rows) |->
                   [c \in 1..Len(f.cols) |-> ReadField(f.rows[i][c], dtypes[c])]]]

-----------------------------------------------------------------------------
(* clean_data, step by step *)

n_neighbors == 15

\* data.columns = normalised_columns
NormaliseColumns(data) ==
    [data EXCEPT !.cols = [c \in 1..NCols(data) |-> NormaliseColumn(data.cols[c])]]

drop_cols == {"financial_flows_to_developing_countries", "renewables"}

\* data.drop(columns=[...], axis=1, inplace=True), all labels present
DropColumns(data) ==
    SelectColumns(data, {c \in 1..NCols(data) : data.cols[c] \notin drop_cols})

\* gdp_growth listed among the percentage columns
MutPctCols ==
    {"access_to_electricity", "access_to_clean_fuels_for_cooking",
     "renewable_energy_share_in_the_total_final_energy_consumption",
     "low_carbon_electricity", "gdp_growth"}

pct_cols ==
    {"access_to_electricity", "access_to_clean_fuels_for_cooking",
     "renewable_energy_share_in_the_total_final_energy_consumption",
     "low_carbon_electricity"}

\* data.loc[data[col] > 100, col] = 100 for each col of pct_cols; the
\* comparison is False for a missing value
ClampPercentages(data) ==
    [data EXCEPT !.rows =
        [i \in 1..NRows(data) |->
            [c \in 1..NCols(data) |->
                LET x == data.rows[i][c] IN
                IF data.cols[c] \in pct_cols /\ x.k = "num" /\ x.n > F(100)
                THEN Num(F(100)) ELSE x]]]

RECURSIVE ReplaceCommaFrom(_, _)
ReplaceCommaFrom(s, i) ==
    IF i > Len(s) THEN ""
    ELSE (IF Chr(s, i) = "," THEN "." ELSE Chr(s, i)) \o ReplaceCommaFrom(s, i + 1)

\* data['density_n'] = data['density_n'].str.replace(',', '.'): the column
\* keeps its object dtype
ReplaceDecimalComma(data) ==
    [data EXCEPT !.rows =
        [i \in 1..NRows(data) |->
            [c \in 1..NCols(data) |->
                LET x == data.rows[i][c] IN
                IF data.cols[c] = "density_n" /\ x.k = "str"
                THEN Str(ReplaceCommaFrom(x.s, 1)) ELSE x]]]

\* data['density_n'].astype('float') raises no ValueError; its result is
\* not assigned
AstypeFloatSucceeds(data) ==
    \A i \in 1..NRows(data) :
        LET x == Cell(data, i, "density_n") IN x.k = "str" => IsFloatText(x.s)

\* data.select_dtypes(include=dtype)
select_dtypes(data, dtype) ==
    SelectColumns(data, {c \in 1..NCols(data) : data.dtypes[c] = dtype})

(* KNNImputer(n_neighbors=15).fit_transform(numerics), uniform weights,      *)
(* nan_euclidean metric.                                                     *)

\* rows holding a value in column c: the potential donors
Donors(X, c) == {j \in 1..NRows(X) : ~IsNa(X.rows[j][c])}

\* columns observed in both rows
Shared(X, i, j) == {d \in 1..NCols(X) : ~IsNa(X.rows[i][d]) /\ ~IsNa(X.rows[j][d])}

\* the sum of f[x] over x in S
RECURSIVE SumOver(_, _)
SumOver(S, f) ==
    IF S = {} THEN 0 ELSE LET x == CHOOSE y \in S : TRUE IN f[x] + SumOver(S \ {x}, f)

SqDiff(X, i, j) ==
    SumOver(Shared(X, i, j),
            [d \in 1..NCols(X) |->
                (X.rows[i][d].n - X.rows[j][d].n) * (X.rows[i][d].n - X.rows[j][d].n)])

\* donor a comes before donor b in the order of nan_euclidean distance to
\* row i (squared distance = NCols / |Shared| * SqDiff; undefined distances
\* last, ties by position)
Nearer(X, i, a, b) ==
    LET pa == Cardinality(Shared(X, i, a))
        pb == Cardinality(Shared(X, i, b))
    IN \/ pa > 0 /\ pb = 0
       \/ pa > 0 /\ pb > 0 /\ SqDiff(X, i, a) * pb < SqDiff(X, i, b) * pa
       \/ pa > 0 /\ pb > 0 /\ SqDiff(X, i, a) * pb = SqDiff(X, i, b) * pa /\ a < b
       \/ pa = 0 /\ pb = 0 /\ a < b

\* the donors whose values are averaged for the missing cell (i, c): all of
\* them when there are at most n_neighbors (always so for fewer than 17 rows),
\* else the n_neighbors nearest
Neighbours(X, i, c) ==
    LET donors == Donors(X, c) IN
    IF Cardinality(donors) <= n_neighbors THEN donors
    ELSE IF \A j \in donors : Shared(X, i, j) = {} THEN donors
    ELSE {j \in donors :
            Cardinality({a \in donors : Nearer(X, i, a, j)}) < n_neighbors}

\* the mean of the neighbours' values in column c
ImputedValue(X, i, c) ==
    SumOver(Neighbours(X, i, c), [j \in 1..NRows(X) |-> X.rows[j][c].n])
        \div Cardinality(Neighbours(X, i, c))

\* check_array rejects an input with no sample or no feature
ImputerAccepts(X) == NRows(X) > 0 /\ NCols(X) > 0

\* features with no observed value are left out of the result, whose width
\* then differs from len(numeric_cols)
ImputedShapeFits(X) == \A c \in 1..NCols(X) : Donors(X, c) # {}

\* pd.DataFrame(imputer.fit_transform(numerics), columns=numeric_cols, index=numerics.index)
KNNImpute(X) ==
    [X EXCEPT !.rows =
        [i \in 1..NRows(X) |->
            [c \in 1..NCols(X) |->
                IF IsNa(X.rows[i][c]) THEN Num(ImputedValue(X, i, c)) ELSE X.rows[i][c]]]]

\* the categorical frame left out of the concatenation
MutConcat(categoricals, numerics_df) == numerics_df

\* pd.concat([categoricals, numerics_df], axis=1), both on the same index
concat(categoricals, numerics_df) ==
    [cols   |-> categoricals.cols \o numerics_df.cols,
     dtypes |-> categoricals.dtypes \o numerics_df.dtypes,
     rows   |-> [i \in 1..NRows(categoricals) |-> categoricals.rows[i] \o numerics_df.rows[i]]]

RECURSIVE Insert(_, _)
Insert(q, x) ==
    IF q = <<>> THEN <<x>>
    ELSE IF x <= Head(q) THEN <<x>> \o q ELSE <<Head(q)>> \o Insert(Tail(q), x)

RECURSIVE Sort(_)
Sort(q) == IF q = <<>> THEN <<>> ELSE Insert(Sort(Tail(q)), Head(q))

\* the values of column name that are present, as numbers
ObservedNumbers(data, name) ==
    LET present == SelectIdx([i \in 1..NRows(data) |-> Cell(data, i, name)],
                             {i \in 1..NRows(data) : ~IsNa(Cell(data, i, name))}, 1)
    IN [k \in 1..Len(present) |->
            IF present[k].k = "num" THEN present[k].n ELSE ParseFloat(present[k].s)]

\* data['density_n'].median(), skipping missing values, for a pandas that
\* casts the object column to float64; NaN when no value is present
median(data, name) ==
    LET v == Sort(ObservedNumbers(data, name))
        m == Len(v)
    IN IF m = 0 THEN NaN
       ELSE IF m % 2 = 1 THEN Num(v[(m + 1) \div 2])
       ELSE Num((v[m \div 2] + v[m \div 2 + 1]) \div 2)

\* fillna without inplace=True: the frame is not changed
MutFillna(data, value) == data

\* dropna in place of fillna
MutDropna(data, value) ==
    [data EXCEPT !.rows =
        SelectIdx(data.rows,
                  {i \in 1..NRows(data) : \A c \in 1..NCols(data) : ~IsNa(data.rows[i][c])}, 1)]

\* data_imputed.fillna(value, inplace=True): every missing cell of every column
fillna(data, value) ==
    IF IsNa(value) THEN data
    ELSE [data EXCEPT !.rows =
            [i \in 1..NRows(data) |->
                [c \in 1..NCols(data) |->
                    IF IsNa(data.rows[i][c]) THEN value ELSE data.rows[i][c]]]]

\* int(x) of a float: truncation toward zero
Truncate(n) == IF n >= 0 THEN (n \div Scale) * Scale ELSE 0 - (((0 - n) \div Scale) * Scale)

\* data_imputed['year'].astype('int') raises nothing: the column holds numbers
AstypeIntSucceeds(data) ==
    \A i \in 1..NRows(data) : Cell(data, i, "year").k = "num"

\* data_imputed['year'] = data_imputed['year'].astype('int')
YearAsInt(data) ==
    [data EXCEPT
        !.dtypes = [c \in 1..NCols(data) |->
                      IF data.cols[c] = "year" THEN "number" ELSE data.dtypes[c]],
        !.rows = [i \in 1..NRows(data) |->
                    [c \in 1..NCols(data) |->
                        IF data.cols[c] = "year"
                        THEN Num(Truncate(data.rows[i][c].n)) ELSE data.rows[i][c]]]]

-----------------------------------------------------------------------------
(* clean_data as a whole: the step that raises, if any, and the locals *)

\* data.drop raises no KeyError
DropSucceeds(data) == drop_cols \subseteq ColumnSet(data)

\* data[col] > 100 raises neither KeyError nor TypeError (str against int)
ClampSucceeds(data) ==
    \A name \in pct_cols :
        /\ HasCol(data, name)
        /\ data.dtypes[ColIndex(data, name)] = "number" \/ NRows(data) = 0

\* data['density_n'].str raises neither KeyError nor AttributeError
StrAccessorSucceeds(data) ==
    /\ HasCol(data, "density_n")
    /\ data.dtypes[ColIndex(data, "density_n")] = "object"

\* a missing year column goes unnoticed
MutYearSucceeds(data) == TRUE

\* data_imputed['year'] raises no KeyError and astype('int') no ValueError
YearSucceeds(data) == HasCol(data, "year") /\ AstypeIntSucceeds(data)

Locals(failed, pruned, clamped, data, numerics, data_imputed) ==
    [failed |-> failed, pruned |-> pruned, clamped |-> clamped, data |-> data,
     numeric_cols |-> numerics.cols, data_imputed |-> data_imputed]

NoLocals == Locals("not run", EmptyFrame, EmptyFrame, EmptyFrame, EmptyFrame, EmptyFrame)

\* clean_data(data_path) up to the to_csv call: failed = "" when no step
\* raised, and then data_imputed is the frame handed to to_csv. casts tells
\* whether median() of the object column density_n casts its strings to
\* float64 (pandas before 2.0) or raises TypeError (pandas 2.0 and later);
\* the source pins no version, so both are possible.
clean_data(file, casts) ==
    IF file = <<>> THEN Locals("read_csv", EmptyFrame, EmptyFrame, EmptyFrame, EmptyFrame, EmptyFrame)
    ELSE
    LET named == NormaliseColumns(read_csv(file[1])) IN
    IF ~DropSucceeds(named)
    THEN Locals("drop", EmptyFrame, EmptyFrame, EmptyFrame, EmptyFrame, EmptyFrame)
    ELSE
    LET pruned == DropColumns(named) IN
    IF ~ClampSucceeds(pruned)
    THEN Locals("clamp", pruned, EmptyFrame, EmptyFrame, EmptyFrame, EmptyFrame)
    ELSE
    LET clamped == ClampPercentages(pruned) IN
    IF ~StrAccessorSucceeds(clamped)
    THEN Locals("str", pruned, clamped, EmptyFrame, EmptyFrame, EmptyFrame)
    ELSE
    LET data == ReplaceDecimalComma(clamped) IN
    IF ~AstypeFloatSucceeds(data)
    THEN Locals("astype_float", pruned, clamped, data, EmptyFrame, EmptyFrame)
    ELSE
    LET numerics == select_dtypes(data, "number")
        categoricals == select_dtypes(data, "object")
    IN
    IF ~(ImputerAccepts(numerics) /\ ImputedShapeFits(numerics))
    THEN Locals("impute", pruned, clamped, data, numerics, EmptyFrame)
    ELSE
    LET numerics_df == KNNImpute(numerics)
        merged == concat(categoricals, numerics_df)
    IN
    IF ~casts
    THEN Locals("median", pruned, clamped, data, numerics, merged)
    ELSE
    LET filled == fillna(merged, median(data, "density_n")) IN
    IF ~YearSucceeds(filled)
    THEN Locals("astype_int", pruned, clamped, data, numerics, filled)
    ELSE Locals("", pruned, clamped, data, numerics, YearAsInt(filled))

-----------------------------------------------------------------------------
(* post_to_elasticsearch *)

\* row.to_dict() for each row of data.iterrows()
Documents(data) ==
    LET columns == ColumnSet(data)
        at == [name \in columns |-> ColIndex(data, name)]
    IN [i \in 1..NRows(data) |-> [name \in columns |-> data.rows[i][at[name]]]]

\* actions carrying the row number as _id: a reload overwrites
MutBulk(index, docs) ==
    IF Len(index) <= Len(docs) THEN docs
    ELSE docs \o SubSeq(index, Len(docs) + 1, Len(index))

\* helpers.bulk(es, actions): actions carry no _id and no op type, so each is
\* indexed as a new document
bulk(index, docs) == index \o docs

-----------------------------------------------------------------------------
(* The DAG and its scheduling *)

Tasks == {"connect", "clean_data", "post_to_elasticsearch"}

retries == 1

\* the chain written without clean_data depending on connect
MutUpstream(t) ==
    IF t = "post_to_elasticsearch" THEN {"connect"} ELSE {}

\* connect_task >> clean_data_task >> post_to_elasticsearch_task
Upstream(t) ==
    IF t = "clean_data" THEN {"connect"}
    ELSE IF t = "post_to_elasticsearch" THEN {"clean_data"}
    ELSE {}

Finished == {"success", "failed", "upstream_failed"}

\* the scheduler may run t: it is scheduled or waiting for its retry, and
\* (trigger rule all_success) every upstream task has succeeded
Runnable(t) ==
    /\ state[t] \in {"none", "up_for_retry"}
    /\ \A u \in Upstream(t) : state[u] = "success"

\* the task instance ends: success, or failure with a retry left, or failure
Finish(t, ok) ==
    /\ tries' = [tries EXCEPT ![t] = @ + 1]
    /\ state' = [state EXCEPT ![t] =
                    IF ok THEN "success"
                    ELSE IF tries[t] + 1 <= retries THEN "up_for_retry"
                    ELSE "failed"]

\* connect(**connect_args) returns: the table is dumped to data_raw.csv
ConnectSucceeds ==
    /\ Runnable("connect")
    /\ rawFile' = <<to_csv(table)>>
    /\ Finish("connect", TRUE)
    /\ UNCHANGED <<table, castsObject, cleanFile, esIndex, run, locals, loads, strays, normVars>>

\* create_engine / read_sql_table raises: nothing is written
ConnectFails ==
    /\ Runnable("connect")
    /\ Finish("connect", FALSE)
    /\ UNCHANGED <<table, castsObject, rawFile, cleanFile, esIndex, run, locals, loads, strays, normVars>>

\* clean_data(**clean_data_args)
CleanData ==
    /\ Runnable("clean_data")
    /\ \E r \in {clean_data(rawFile, castsObject)} :
        /\ locals' = r
        /\ cleanFile' = IF r.failed = "" THEN <<to_csv(r.data_imputed)>> ELSE cleanFile
        /\ Finish("clean_data", r.failed = "")
    /\ UNCHANGED <<table, castsObject, rawFile, esIndex, run, loads, strays, normVars>>

\* post_to_elasticsearch(**elasticsearch_args) returns
PostSucceeds ==
    /\ Runnable("post_to_elasticsearch")
    /\ cleanFile # <<>>
    /\ \E docs \in {Documents(read_csv(cleanFile[1]))} :
        /\ esIndex' = bulk(esIndex, docs)
        /\ loads' = Append(loads, [at |-> Len(esIndex), n |-> Len(docs)])
    /\ Finish("post_to_elasticsearch", TRUE)
    /\ UNCHANGED <<table, castsObject, rawFile, cleanFile, run, locals, strays, normVars>>

\* post_to_elasticsearch raises: the file or the endpoint is missing, or the
\* bulk call fails before the store took a document or after it took the
\* first one
PostFails ==
    /\ Runnable("post_to_elasticsearch")
    /\ IF cleanFile = <<>>
       THEN UNCHANGED <<esIndex, strays>>
       ELSE \E docs \in {Documents(read_csv(cleanFile[1]))} :
            \E j \in {0, 1} \cap (0..Len(docs)) :
                /\ esIndex' = bulk(esIndex, SubSeq(docs, 1, j))
                /\ strays' = strays + j
    /\ Finish("post_to_elasticsearch", FALSE)
    /\ UNCHANGED <<table, castsObject, rawFile, cleanFile, run, locals, loads, normVars>>

\* a task with a failed upstream task is never run
MarkUpstreamFailed ==
    /\ \E t \in Tasks :
        /\ state[t] = "none"
        /\ \E u \in Upstream(t) : state[u] \in {"failed", "upstream_failed"}
        /\ state' = [state EXCEPT ![t] = "upstream_failed"]
    /\ UNCHANGED <<table, castsObject, rawFile, cleanFile, esIndex, run, tries, locals,
                   loads, strays, normVars>>

\* schedule_interval: the next daily run, once the current one has ended
NextDagRun ==
    /\ run < MaxRuns
    /\ \A t \in Tasks : state[t] \in Finished
    /\ run' = run + 1
    /\ state' = [t \in Tasks |-> "none"]
    /\ tries' = [t \in Tasks |-> 0]
    /\ locals' = NoLocals
    /\ UNCHANGED <<table, castsObject, rawFile, cleanFile, esIndex, loads, strays, normVars>>

-----------------------------------------------------------------------------
(* The source table *)

RawColumns ==
    <<"Entity", "Year", "Access to electricity (% of population)",
      "Access to clean fuels for cooking",
      "Financial flows to developing countries (US $)",
      "Renewable energy share in the total final energy consumption (%)",
      "Low-carbon electricity (% electricity)",
      "Renewables (% equivalent primary energy)", "gdp_growth",
      "Density\\n(P/Km2)">>

\* rows the table is built from, aligned with RawColumns
RowPool ==
    <<<<Str("Indonesia"), Num(F(2000)), Num(F(150)), Num(F(45)), NaN, Num(F(100)),
        Num(F(0 - 5)), Num(F(3)), Num(F(150)), Str("12,5")>>,
      <<Str("Indonesia"), NaN, NaN, Num(F(100)), Num(F(7)), Num(F(45)),
        Num(F(20)), NaN, Num(F(4)), Str("3")>>,
      <<NaN, Num(F(2001)), Num(F(98)), NaN, NaN, Num(F(101)),
        Num(F(150)), Num(F(5)), NaN, NaN>>,
      <<Str("Indonesia"), Num(F(2003)), Num(F(45)), Num(F(50)), Num(F(1)), Num(F(30)),
        Num(F(10)), Num(F(2)), Num(F(0 - 2)), Str("1.234,56")>>>>

\* the table of the pool rows pick[1], pick[2], ..., without the column at
\* position missing (0: with every column)
TableOf(pick, missing) ==
    LET keep == {c \in 1..Len(RawColumns) : c # missing} IN
    [cols |-> SelectIdx(RawColumns, keep, 1),
     rows |-> [i \in 1..Len(pick) |-> SelectIdx(RowPool[pick[i]], keep, 1)]]

\* the sequences of up to n pool rows
Picks(n) == UNION {[1..m -> 1..Len(RowPool)] : m \in 0..n}

\* the tables: up to MaxRows pool rows with every column, and up to one pool
\* row with all columns but one
Tables ==
    {TableOf(pick, 0) : pick \in Picks(MaxRows)}
        \cup {TableOf(pick, missing) : pick \in Picks(1), missing \in 1..Len(RawColumns)}

Init ==
    /\ table \in Tables
    /\ castsObject \in BOOLEAN
    /\ rawFile = <<>>
    /\ cleanFile = <<>>
    /\ esIndex = <<>>
    /\ run = 1
    /\ state = [t \in Tasks |-> "none"]
    /\ tries = [t \in Tasks |-> 0]
    /\ locals = NoLocals
    /\ loads = <<>>
    /\ strays = 0
    /\ col = ""
    /\ normalised_columns = <<>>

Next ==
    \/ ConnectSucceeds
    \/ ConnectFails
    \/ CleanData
    \/ PostSucceeds
    \/ PostFails
    \/ MarkUpstreamFailed
    \/ NextDagRun

Spec == Init /\ [][Next]_vars

-----------------------------------------------------------------------------
(* Column-name study: the normalisation applied to a name, then to its result *)

Alphabet == {"a", "B", "7", "_", " ", "-", "(", ")", "%"}

RECURSIVE Names(_)
Names(n) ==
    IF n = 0 THEN {""}
    ELSE LET shorter == Names(n - 1) IN shorter \cup {s \o c : s \in shorter, c \in Alphabet}

InitNorm ==
    /\ col \in Names(MaxNameLen)
    /\ normalised_columns = <<>>
    /\ table = [cols |-> <<>>, rows |-> <<>>]
    /\ castsObject = TRUE
    /\ rawFile = <<>>
    /\ cleanFile = <<>>
    /\ esIndex = <<>>
    /\ run = 1
    /\ state = [t \in Tasks |-> "none"]
    /\ tries = [t \in Tasks |-> 0]
    /\ locals = NoLocals
    /\ loads = <<>>
    /\ strays = 0

\* normalised_columns.append(col) after the four rewriting steps
Normalise ==
    /\ Len(normalised_columns) < 2
    /\ normalised_columns' =
          Append(normalised_columns,
                 NormaliseColumn(IF normalised_columns = <<>> THEN col
                                 ELSE normalised_columns[Len(normalised_columns)]))
    /\ UNCHANGED <<col, pipelineVars>>

NextNorm == Normalise

SpecNorm == InitNorm /\ [][NextNorm]_vars

-----------------------------------------------------------------------------
(* Properties *)

Range(q) == {q[i] : i \in 1..Len(q)}

\* the raw record set of the run, as clean_data reads it
RawSet == read_csv(rawFile[1])

\* the cleaned record set: the artifact, as its reader sees it
CleanedSet == read_csv(cleanFile[1])

\* clean_data has succeeded in the current run and the Loader has not started:
\* the artifacts and the locals are those clean_data left (no other task
\* writes them)
Cleaned == state["clean_data"] = "success" /\ tries["post_to_elasticsearch"] = 0

\* C1: in every run connect, clean_data and post_to_elasticsearch execute in
\* this order: a task has been tried only if its upstream task has succeeded,
\* a task is failed only after retries + 1 tries, and no task downstream of a
\* failed (or never run) task has been tried.
C1_StagesInOrder ==
    /\ tries["clean_data"] > 0 => state["connect"] = "success"
    /\ tries["post_to_elasticsearch"] > 0 =>
          state["connect"] = "success" /\ state["clean_data"] = "success"
    /\ \A t \in Tasks : state[t] = "failed" => tries[t] = retries + 1
    /\ state["connect"] \in {"failed", "upstream_failed"} =>
          tries["clean_data"] = 0 /\ tries["post_to_elasticsearch"] = 0
    /\ state["clean_data"] \in {"failed", "upstream_failed"} =>
          tries["post_to_elasticsearch"] = 0

\* the Cleaner failed twice and the Loader was marked upstream_failed, untried
C1_Witness ==
    /\ state["connect"] = "success"
    /\ state["clean_data"] = "failed" /\ tries["clean_data"] = 2
    /\ state["post_to_elasticsearch"] = "upstream_failed"
    /\ tries["post_to_elasticsearch"] = 0

\* C2: after the decimal-separator repair the density column is float typed:
\* it has the number dtype, holds no string, and is one of numeric_cols.
C2_DensityIsFloat ==
    locals.failed = "" =>
        /\ locals.data.dtypes[ColIndex(locals.data, "density_n")] = "number"
        /\ \A i \in 1..NRows(locals.data) : Cell(locals.data, i, "density_n").k # "str"
        /\ "density_n" \in Range(locals.numeric_cols)

\* C3: the clamping step turns a value above 100 in one of the four percentage
\* columns into 100 and leaves every other cell (values up to 100, negative
\* values, missing values, every other column) and the columns as they were.
C3_Clamping ==
    locals.failed \notin {"not run", "read_csv", "drop", "clamp"} =>
        /\ locals.clamped.cols = locals.pruned.cols
        /\ locals.clamped.dtypes = locals.pruned.dtypes
        /\ NRows(locals.clamped) = NRows(locals.pruned)
        /\ \A i \in 1..NRows(locals.pruned) : \A c \in 1..NCols(locals.pruned) :
              LET before == locals.pruned.rows[i][c]
                  after == locals.clamped.rows[i][c]
              IN IF /\ locals.pruned.cols[c] \in
                          {"access_to_electricity", "access_to_clean_fuels_for_cooking",
                           "renewable_energy_share_in_the_total_final_energy_consumption",
                           "low_carbon_electricity"}
                    /\ before.k = "num" /\ before.n > 100 * Scale
                 THEN after = Num(100 * Scale)
                 ELSE after = before

\* one frame with a percentage of 150 clamped, a missing and a negative
\* percentage kept, and a GDP growth of 150 kept
C3_Witness ==
    /\ locals.failed = ""
    /\ table.cols = RawColumns
    /\ \E i \in 1..NRows(locals.pruned) :
          /\ Cell(locals.pruned, i, "access_to_electricity") = Num(150 * Scale)
          /\ Cell(locals.clamped, i, "access_to_electricity") = Num(100 * Scale)
          /\ Cell(locals.clamped, i, "low_carbon_electricity") = Num((0 - 5) * Scale)
          /\ Cell(locals.clamped, i, "gdp_growth") = Num(150 * Scale)
    /\ \E i \in 1..NRows(locals.pruned) :
          /\ IsNa(Cell(locals.pruned, i, "access_to_electricity"))
          /\ IsNa(Cell(locals.clamped, i, "access_to_electricity"))

\* C4: after a successful clean_data no numeric column of the cleaned record
\* set holds a missing value: neither a column of the numeric group nor a
\* column that reads as numbers from the cleaned artifact.
C4_NoMissingNumeric ==
    Cleaned =>
        LET cs == CleanedSet IN
        \A c \in 1..NCols(cs) :
            (cs.dtypes[c] = "number" \/ cs.cols[c] \in Range(locals.numeric_cols))
                => \A i \in 1..NRows(cs) : ~IsNa(cs.rows[i][c])

\* a successful run whose raw record set misses a value of the numeric group
\* and a density value
C4_Witness ==
    /\ Cleaned
    /\ table.cols = RawColumns
    /\ \E i \in 1..NRows(locals.data) : IsNa(Cell(locals.data, i, "access_to_electricity"))
    /\ \E i \in 1..NRows(locals.data) : IsNa(Cell(locals.data, i, "density_n"))
    /\ \A i \in 1..NRows(CleanedSet) :
          /\ ~IsNa(Cell(CleanedSet, i, "access_to_electricity"))
          /\ ~IsNa(Cell(CleanedSet, i, "density_n"))

\* the names of the raw columns, normalised
RawNames == [c \in 1..NCols(RawSet) |-> NormaliseColumn(RawSet.cols[c])]

\* C5: after a successful clean_data the cleaned record set has as many rows
\* as the raw record set, in the same order: a value present in row i of a raw
\* column that no step rewrites is the value of row i of the cleaned column.
C5_RowCount ==
    Cleaned =>
        LET cs == CleanedSet
            rs == RawSet
            names == RawNames
        IN /\ NRows(cs) = NRows(rs)
           /\ \A c \in 1..NCols(rs) :
                 names[c] \in {"entity", "year", "gdp_growth"} =>
                    \A i \in 1..NRows(rs) :
                        ~IsNa(rs.rows[i][c]) =>
                            HasCol(cs, names[c]) /\ Cell(cs, i, names[c]) = rs.rows[i][c]

\* a successful run on three rows, one of them with missing values
C5_Witness ==
    /\ Cleaned
    /\ table.cols = RawColumns
    /\ NRows(RawSet) = 3
    /\ NRows(CleanedSet) = 3
    /\ \E i \in 1..3 : \E c \in 1..NCols(RawSet) : IsNa(RawSet.rows[i][c])
    /\ Cell(CleanedSet, 1, "gdp_growth") # Cell(CleanedSet, 2, "gdp_growth")

C7_Idempotent ==
    /\ Len(normalised_columns) = 2 => normalised_columns[2] = normalised_columns[1]
    /\ \A k \in 1..Len(normalised_columns) :
          \A i \in 1..Len(normalised_columns[k]) :
              HasChar("abcdefghijklmnopqrstuvwxyz0123456789_", Chr(normalised_columns[k], i))

\* a name with an upper-case letter, a parenthesis and a percent sign,
\* normalised twice
C7_Witness ==
    /\ Len(normalised_columns) = 2
    /\ col = "B(%)"
    /\ normalised_columns[1] = "b"

\* C8: the Loader only appends: every successful load has added one document
\* per row of the cleaned record set, with exactly the row's column -> value
\* pairs, these documents stay where they were put, and the index holds the
\* documents of the successful loads plus those taken from failed bulk calls;
\* with no such stray document, k loads of the n rows leave k * n documents.
C8_AppendOnly ==
    /\ Len(esIndex) = SumSeq([l \in 1..Len(loads) |-> loads[l].n]) + strays
    /\ loads # <<>> =>
          LET cs == CleanedSet
              rowDocs == [k \in 1..NRows(cs) |->
                            [name \in ColumnSet(cs) |-> cs.rows[k][ColIndex(cs, name)]]]
          IN /\ \A l \in 1..Len(loads) :
                    SubSeq(esIndex, loads[l].at + 1, loads[l].at + loads[l].n) = rowDocs
             /\ strays = 0 => Len(esIndex) = Len(loads) * NRows(cs)

\* two successful loads of the same record set of at least two rows: twice
\* the documents
C8_Witness ==
    /\ cleanFile # <<>>
    /\ Len(loads) = 2
    /\ strays = 0
    /\ NRows(CleanedSet) >= 2
    /\ Len(esIndex) = 2 * NRows(CleanedSet)
    /\ esIndex[1] = esIndex[1 + NRows(CleanedSet)]

RequiredColumns ==
    {"financial_flows_to_developing_countries", "renewables", "access_to_electricity",
     "access_to_clean_fuels_for_cooking",
     "renewable_energy_share_in_the_total_final_energy_consumption",
     "low_carbon_electricity", "density_n", "year"}

\* C9: a clean_data call that fails leaves the cleaned artifact as it was; a
\* call on a raw record set that lacks, after normalisation, one of the
\* columns the steps name fails; and the artifact is written only by a call
\* in which no step failed.
C9_FailedRunWritesNothing ==
    [][/\ (tries'["clean_data"] = tries["clean_data"] + 1 /\ state'["clean_data"] # "success")
            => cleanFile' = cleanFile
       /\ (tries'["clean_data"] = tries["clean_data"] + 1
              /\ ~(RequiredColumns \subseteq Range(RawNames)))
            => state'["clean_data"] # "success" /\ cleanFile' = cleanFile
       /\ cleanFile' # cleanFile
            => state'["clean_data"] = "success" /\ locals'.failed = ""]_vars

\* the Cleaner failed for good on a table without a column to prune, and
\* there is no cleaned artifact
C9_Witness ==
    /\ state["clean_data"] = "failed"
    /\ tries["clean_data"] = retries + 1
    /\ locals.failed = "drop"
    /\ NRows(RawSet) > 0
    /\ cleanFile = <<>>

\* C10: the imputation leaves the categorical columns as they were after the
\* decimal-separator repair, missing values included.
C10_CategoricalsUntouched ==
    locals.failed = "" =>
        \A c \in 1..NCols(locals.data) :
            locals.data.dtypes[c] = "object" =>
                \A i \in 1..NRows(locals.data) :
                    Cell(locals.data_imputed, i, locals.data.cols[c]) = locals.data.rows[i][c]

=============================================================================
